---- MODULE Spec2Model ----
(***************************************************************************)
(* Model of taierspeed-cli:                                                *)
(*   - the latency-based server selection of speedtest.SpeedTest and       *)
(*     speedtest.pingWorker (speedtest.go 416-498),                        *)
(*   - defs.BytesCounter (bytes_counter.go),                               *)
(*   - speedtest.preprocessServers (speedtest.go 684-734),                 *)
(*   - the server discovery of speedtest.SpeedTest (speedtest.go 189-342), *)
(*   - speedtest.checkProv, speedtest.Encrypt / Decrypt and the host       *)
(*     resolution of getPerceptionServerList.                              *)
(*                                                                         *)
(* The parts have disjoint state;       every specification below runs one *)
(* part and leaves the variables of the others at their initial values.    *)
(***************************************************************************)
EXTENDS Integers, Sequences, FiniteSets, TLC

\* ---------------------------------------------------------------- bounds
\* the number of pingWorker goroutines spawned (speedtest.go:431)
PoolSize == 10
\* largest candidate list of the selection specification
MaxServers == 3
\* the pool specification dispatches PoolSize+1 .. PoolSize+ExtraServers jobs
ExtraServers == 1
\* in the pool specification the first PoolVaried candidates take every outcome
PoolVaried == 1

VARIABLES
    \* ---- selection (speedtest.go 416-498)
    nServers,   \* len(servers)
    outcome,    \* per candidate: what IsUp / ICMPPingAndJitter answer
    opc,        \* position of the SpeedTest goroutine
    spawned,    \* pingWorker goroutines started so far (loop variable i)
    idx,        \* next index of the dispatch loop
    jobs,       \* buffered channel jobs (FIFO of indices)
    results,    \* buffered channel results (FIFO of PingResult)
    done,       \* TRUE once close(done) ran
    wg,         \* sync.WaitGroup counter
    wpc,        \* position of the goroutine running wg.Wait(); close(done)
    working,    \* jobs held by a worker |-> position of that worker
    exited,     \* pingWorker goroutines that returned
    pingList,   \* map[int]float64
    serverIdx,  \* var serverIdx int
    unvisited,  \* keys of pingList the range loop has not yielded yet
    tested      \* servers handed to doSpeedTest

VARIABLES
    \* ---- defs.BytesCounter (bytes_counter.go)
    phase,      \* "setup" until the caller has called Start(), then "run"
    uploadSize, \* c.uploadSize
    payloadLen, \* len(c.payload)
    payloadGen, \* how often GenerateBlob ran (0: c.reader is nil)
    off,        \* read offset of c.reader (bytes.Reader)
    pos,        \* c.pos
    total,      \* c.total (uint64)
    mebi,       \* c.mebi
    started,    \* c.start has been set
    lock,       \* c.lock: 0 when free, else the goroutine holding it
    tpc,        \* per goroutine: position inside the method it is running
    tn,         \* per goroutine: len(p), then n
    tli,        \* per goroutine: the offset reader.Read loaded
    ttmp,       \* per goroutine: the value of c.total it loaded
    teof,       \* per goroutine: reader.Read returned io.EOF
    calls,      \* Write, Read and reporting calls made so far
    tdata,      \* per goroutine: the payload slice the last Read copied out
    tval,       \* per goroutine: the total the last reporting call read
    returned,   \* sum of the byte counts returned by Write and Read so far
    report      \* the last string BytesHumanize returned

selVars == <<nServers, outcome, opc, spawned, idx, jobs, results, done, wg,
             wpc, working, exited, pingList, serverIdx, unvisited, tested>>

ctrVars == <<phase, uploadSize, payloadLen, payloadGen, off, pos, total, mebi,
             started, lock, tpc, tn, tli, ttmp, teof, calls, tdata, tval,
             returned, report>>

VARIABLES
    \* ---- a call of preprocessServers (speedtest.go 684-734)
    fpc,        \* "none" before the call, "returned" after it
    fServers,   \* argument servers
    fExcludes,  \* argument excludes
    fSpecific,  \* argument specific
    fFilter,    \* argument filter
    fRet,       \* the returned []defs.Server (nil is the empty sequence)
    fErr        \* the returned error ("" is nil)

fltVars == <<fpc, fServers, fExcludes, fSpecific, fFilter, fRet, fErr>>

VARIABLES
    \* ---- a run of SpeedTest up to the tests (speedtest.go 189-342)
    rpc,        \* position inside SpeedTest
    opt,        \* the command line options (c)
    rGeo,       \* the reply getIPInfo received
    ispInfo,    \* var ispInfo *defs.IPInfoResponse
    isCN,       \* isCN
    provs,      \* var provs []defs.ProvinceInfo
    rServers,   \* var servers []defs.Server
    rStd,       \* servers as the Standard block (276-292) left it
    rErr,       \* var err error ("" is nil)
    net,        \* kinds of network requests issued so far
    printed,    \* the server list was printed
    rAt         \* source line of the return statement taken, 0 while running

runVars == <<rpc, opt, rGeo, ispInfo, isCN, provs, rServers, rStd, rErr,
             net, printed, rAt>>

VARIABLES
    \* ---- a call of checkProv (speedtest.go 805-812)
    ppc,        \* "none", "called", "returned"
    pArr,       \* argument arr
    pVal,       \* argument val
    pRet        \* the returned bool

prvVars == <<ppc, pArr, pVal, pRet>>

VARIABLES
    \* ---- Encrypt followed by Decrypt (speedtest.go 69-125)
    cpc,        \* "none", "plain", "encrypted", "decrypted", "panicked"
    cPlain,     \* the plaintext bytes
    cKey,       \* the key bytes
    cCipher,    \* the hex string Encrypt returned
    cOut        \* the bytes Decrypt returned

codVars == <<cpc, cPlain, cKey, cCipher, cOut>>

VARIABLES
    \* ---- resolving one Perception server (speedtest.go 567-586)
    dpc,        \* "none", "listed", "resolved"
    dRecords,   \* what net.LookupHost returns for the host
    dServer,    \* the fields IP and IPv6 of s
    dLooked     \* the loop over the records ran

dnsVars == <<dpc, dRecords, dServer, dLooked>>

vars == <<selVars, ctrVars, fltVars, runVars, prvVars, codVars, dnsVars>>

\* ------------------------------------------------------------- selection
\* the latencies ICMPPingAndJitter returns
Pings == {1, 2}
\* IsUp false | IsUp true and ICMPPingAndJitter fails | a latency
Down == [kind |-> "down", ping |-> 0]
Err == [kind |-> "err", ping |-> 0]
Ok(p) == [kind |-> "ok", ping |-> p]
Outcomes == {Down, Err} \cup {Ok(p) : p \in Pings}
Candidates == 0..(nServers - 1)

\* Go's map read: the zero value for a missing key (speedtest.go:463)
PingAt(pl, i) == IF i \in DOMAIN pl THEN pl[i] ELSE 0

\* workers blocked on `job := <-jobs` (speedtest.go:475).  Workers are
\* identical and keep no state between jobs, so the pool is the multiset of
\* their positions: idle, holding a job (working), or returned (exited).
Idle == spawned - exited - Cardinality(DOMAIN working)

DropMut(f, k) == f

\* the worker lets go of the job it held (next loop iteration or return)
Drop(f, k) == [x \in DOMAIN f \ {k} |-> f[x]]
Put(f, k, v) == [x \in DOMAIN f \cup {k} |-> IF x = k THEN v ELSE f[x]]

InitSel ==
    /\ opc = "spawn"
    /\ spawned = 0
    /\ idx = 0
    /\ jobs = <<>>
    /\ results = <<>>
    /\ done = FALSE
    /\ wg = 0
    /\ wpc = "none"
    /\ working = <<>>
    /\ exited = 0
    /\ pingList = <<>>
    /\ serverIdx = 0
    /\ unvisited = {}
    /\ tested = <<>>

AllOutcomes(n) == [0..(n - 1) -> Outcomes]

\* the first PoolVaried candidates take every outcome, the others all fail
\* the same way (all unreachable, or all with a probe error)
PoolOutcomes(n) ==
    {[i \in 0..(n - 1) |-> IF i < PoolVaried THEN h[i] ELSE c] :
        h \in [0..(PoolVaried - 1) -> Outcomes], c \in {Down, Err}}

\* for i := 0; i < 10; i++ { go pingWorker(...) }
Spawn ==
    /\ opc = "spawn"
    /\ spawned' = spawned + 1
    /\ opc' = IF spawned + 1 < PoolSize THEN "spawn" ELSE "dispatch"
    /\ UNCHANGED <<nServers, outcome, idx, jobs, results, done, wg, wpc,
                   working, exited, pingList, serverIdx, unvisited, tested>>
    /\ UNCHANGED <<ctrVars, fltVars, runVars, prvVars, codVars, dnsVars>>

\* for idx, server := range servers { wg.Add(1); jobs <- PingJob{...} }
Dispatch ==
    /\ opc = "dispatch"
    /\ Len(jobs) < nServers
    /\ wg' = wg + 1
    /\ jobs' = Append(jobs, idx)
    /\ idx' = idx + 1
    /\ opc' = IF idx + 1 < nServers THEN "dispatch" ELSE "gowait"
    /\ UNCHANGED <<nServers, outcome, spawned, results, done, wpc, working,
                   exited, pingList, serverIdx, unvisited, tested>>
    /\ UNCHANGED <<ctrVars, fltVars, runVars, prvVars, codVars, dnsVars>>

\* go func() { wg.Wait(); close(done) }()
GoWait ==
    /\ opc = "gowait"
    /\ wpc' = "wait"
    /\ opc' = "collect"
    /\ UNCHANGED <<nServers, outcome, spawned, idx, jobs, results, done, wg,
                   working, exited, pingList, serverIdx, unvisited, tested>>
    /\ UNCHANGED <<ctrVars, fltVars, runVars, prvVars, codVars, dnsVars>>

\* wg.Wait() returns once the counter is zero
WaitReturns(w) == w = 0

WaiterWake ==
    /\ wpc = "wait"
    /\ WaitReturns(wg)
    /\ wpc' = "close"
    /\ UNCHANGED <<nServers, outcome, opc, spawned, idx, jobs, results, done,
                   wg, working, exited, pingList, serverIdx, unvisited, tested>>
    /\ UNCHANGED <<ctrVars, fltVars, runVars, prvVars, codVars, dnsVars>>

WaiterClose ==
    /\ wpc = "close"
    /\ done' = TRUE
    /\ wpc' = "end"
    /\ UNCHANGED <<nServers, outcome, opc, spawned, idx, jobs, results, wg,
                   working, exited, pingList, serverIdx, unvisited, tested>>
    /\ UNCHANGED <<ctrVars, fltVars, runVars, prvVars, codVars, dnsVars>>

\* select { case result := <-results: pingList[result.Index] = result.Ping
CollectResult ==
    /\ opc = "collect"
    /\ results # <<>>
    /\ pingList' = Put(pingList, Head(results).Index, Head(results).Ping)
    /\ results' = Tail(results)
    /\ UNCHANGED <<nServers, outcome, opc, spawned, idx, jobs, done, wg, wpc,
                   working, exited, serverIdx, unvisited, tested>>
    /\ UNCHANGED <<ctrVars, fltVars, runVars, prvVars, codVars, dnsVars>>

\* case <-done: break Loop }   (select takes any ready case)
DoneReady(d, res) == d

CollectDone ==
    /\ opc = "collect"
    /\ DoneReady(done, results)
    /\ opc' = "check"
    /\ UNCHANGED <<nServers, outcome, spawned, idx, jobs, results, done, wg,
                   wpc, working, exited, pingList, serverIdx, unvisited, tested>>
    /\ UNCHANGED <<ctrVars, fltVars, runVars, prvVars, codVars, dnsVars>>

NoneAvailableMut(pl) == FALSE

\* len(pingList) == 0
NoneAvailable(pl) == Cardinality(DOMAIN pl) = 0

\* if len(pingList) == 0 { log.Fatal(...) };  var serverIdx int
CheckEmpty ==
    /\ opc = "check"
    /\ IF NoneAvailable(pingList)
         THEN opc' = "fatal" /\ UNCHANGED unvisited
         ELSE opc' = "pick" /\ unvisited' = DOMAIN pingList
    /\ serverIdx' = 0
    /\ UNCHANGED <<nServers, outcome, spawned, idx, jobs, results, done, wg,
                   wpc, working, exited, pingList, tested>>
    /\ UNCHANGED <<ctrVars, fltVars, runVars, prvVars, codVars, dnsVars>>

\* if ping > 0 && ping <= pingList[serverIdx] { serverIdx = idx }
Better(pl, cur, i) == pl[i] > 0 /\ pl[i] <= PingAt(pl, cur)

\* one iteration of `for idx, ping := range pingList` (any key order)
PickStep ==
    /\ opc = "pick"
    /\ \E i \in unvisited :
         /\ serverIdx' = IF Better(pingList, serverIdx, i) THEN i ELSE serverIdx
         /\ unvisited' = unvisited \ {i}
    /\ UNCHANGED <<nServers, outcome, opc, spawned, idx, jobs, results, done,
                   wg, wpc, working, exited, pingList, tested>>
    /\ UNCHANGED <<ctrVars, fltVars, runVars, prvVars, codVars, dnsVars>>

\* return doSpeedTest(c, []defs.Server{servers[serverIdx]}, ...)
PickEnd ==
    /\ opc = "pick"
    /\ unvisited = {}
    /\ tested' = <<serverIdx>>
    /\ opc' = "transfer"
    /\ UNCHANGED <<nServers, outcome, spawned, idx, jobs, results, done, wg,
                   wpc, working, exited, pingList, serverIdx, unvisited>>
    /\ UNCHANGED <<ctrVars, fltVars, runVars, prvVars, codVars, dnsVars>>

\* job := <-jobs
Take ==
    /\ Idle > 0
    /\ jobs # <<>>
    /\ working' = Put(working, Head(jobs), "probe")
    /\ jobs' = Tail(jobs)
    /\ UNCHANGED <<nServers, outcome, opc, spawned, idx, results, done, wg,
                   wpc, exited, pingList, serverIdx, unvisited, tested>>
    /\ UNCHANGED <<ctrVars, fltVars, runVars, prvVars, codVars, dnsVars>>

\* server.IsUp(network) is false: log, wg.Done(), next iteration
ProbeDown(j) ==
    /\ j \in DOMAIN working
    /\ working[j] = "probe"
    /\ outcome[j].kind = "down"
    /\ wg' = wg - 1
    /\ working' = Drop(working, j)
    /\ UNCHANGED <<nServers, outcome, opc, spawned, idx, jobs, results, done,
                   wpc, exited, pingList, serverIdx, unvisited, tested>>
    /\ UNCHANGED <<ctrVars, fltVars, runVars, prvVars, codVars, dnsVars>>

\* what a worker does after the probe error branch: 1 = it returns
ExitsOnErr == 1

\* ICMPPingAndJitter fails: log, wg.Done(), return
ProbeErr(j) ==
    /\ j \in DOMAIN working
    /\ working[j] = "probe"
    /\ outcome[j].kind = "err"
    /\ wg' = wg - 1
    /\ working' = Drop(working, j)
    /\ exited' = exited + ExitsOnErr
    /\ UNCHANGED <<nServers, outcome, opc, spawned, idx, jobs, results, done,
                   wpc, pingList, serverIdx, unvisited, tested>>
    /\ UNCHANGED <<ctrVars, fltVars, runVars, prvVars, codVars, dnsVars>>

\* results <- PingResult{Index: job.Index, Ping: ping}
ProbeOk(j) ==
    /\ j \in DOMAIN working
    /\ working[j] = "probe"
    /\ outcome[j].kind = "ok"
    /\ Len(results) < nServers
    /\ results' = Append(results, [Index |-> j, Ping |-> outcome[j].ping])
    /\ working' = Put(working, j, "wgdone")
    /\ UNCHANGED <<nServers, outcome, opc, spawned, idx, jobs, done, wg, wpc,
                   exited, pingList, serverIdx, unvisited, tested>>
    /\ UNCHANGED <<ctrVars, fltVars, runVars, prvVars, codVars, dnsVars>>

\* wg.Done() after the result was sent
WgDone(j) ==
    /\ j \in DOMAIN working
    /\ working[j] = "wgdone"
    /\ wg' = wg - 1
    /\ working' = Drop(working, j)
    /\ UNCHANGED <<nServers, outcome, opc, spawned, idx, jobs, results, done,
                   wpc, exited, pingList, serverIdx, unvisited, tested>>
    /\ UNCHANGED <<ctrVars, fltVars, runVars, prvVars, codVars, dnsVars>>

Orchestrator ==
    \/ Spawn
    \/ Dispatch
    \/ GoWait
    \/ CollectResult
    \/ CollectDone
    \/ CheckEmpty
    \/ PickStep
    \/ PickEnd

Waiter ==
    \/ WaiterWake
    \/ WaiterClose

Worker ==
    \/ Take
    \/ \E j \in Candidates : ProbeDown(j)
    \/ \E j \in Candidates : ProbeErr(j)
    \/ \E j \in Candidates : ProbeOk(j)
    \/ \E j \in Candidates : WgDone(j)

NextSel ==
    \/ Orchestrator
    \/ Waiter
    \/ Worker


\* ---------------------------------------------------------- BytesCounter
\* goroutines using one counter
NumThreads == 2
\* calls made on the counter in the concurrent specification
MaxCalls == 2
\* SetUploadSize is called with 1..MaxKiB
MaxKiB == 2
\* GenerateBlob is called at most MaxBlobs times
MaxBlobs == 1
\* uploadSize * 1024 (bytes_counter.go:63)
KiB == 1024
Threads == 1..NumThreads

\* len(p) of the buffers handed to Write and Read
CtrSizes == {KiB \div 2, KiB}

\* calls of the sequential reader
MaxSeqCalls == 5
\* len(p) of the sequential reader's buffers
SeqSizes == {1, 24, 500, 512, 1000, 1024, 2048, 3000}

\* Write calls before a total is formatted
MaxFmtCalls == 4
\* len(p) of those Writes: their sums meet 999, 1000, 1023, 1024, 7999, 8000,
\* 8191 and 8192
FmtSizes == {1, 24, 192, 999, 7000}

Min(a, b) == IF a < b THEN a ELSE b

NoData == [gen |-> 0, from |-> 0, n |-> 0]

NoReport == [unit |-> "", num |-> 0, den |-> 1, exp |-> 0]

\* NewCounter()
InitCtr ==
    /\ phase = "setup"
    /\ uploadSize = 0
    /\ payloadLen = 0
    /\ payloadGen = 0
    /\ off = 0
    /\ pos = 0
    /\ total = 0
    /\ mebi = FALSE
    /\ started = FALSE
    /\ lock = 0
    /\ tpc = [t \in Threads |-> "idle"]
    /\ tn = [t \in Threads |-> 0]
    /\ tli = [t \in Threads |-> 0]
    /\ ttmp = [t \in Threads |-> 0]
    /\ teof = [t \in Threads |-> FALSE]
    /\ calls = 0
    /\ tdata = [t \in Threads |-> NoData]
    /\ tval = [t \in Threads |-> 0]
    /\ returned = 0
    /\ report = NoReport

\* c.mebi = mebi
SetMebi(b) ==
    /\ phase = "setup"
    /\ mebi' = b
    /\ UNCHANGED <<phase, uploadSize, payloadLen, payloadGen, off, pos, total,
                   started, lock, tpc, tn, tli, ttmp, teof, calls, tdata,
                   tval, returned, report>>
    /\ UNCHANGED <<selVars, fltVars, runVars, prvVars, codVars, dnsVars>>

\* c.uploadSize = uploadSize * 1024
SetUploadSize(k) ==
    /\ phase = "setup"
    /\ uploadSize' = k * KiB
    /\ UNCHANGED <<phase, payloadLen, payloadGen, off, pos, total, mebi,
                   started, lock, tpc, tn, tli, ttmp, teof, calls, tdata,
                   tval, returned, report>>
    /\ UNCHANGED <<selVars, fltVars, runVars, prvVars, codVars, dnsVars>>

\* c.payload = getRandomData(c.uploadSize); c.reader = bytes.NewReader(c.payload)
GenerateBlob ==
    /\ phase = "setup"
    /\ payloadGen < MaxBlobs
    /\ payloadLen' = uploadSize
    /\ payloadGen' = payloadGen + 1
    /\ off' = 0
    /\ UNCHANGED <<phase, uploadSize, pos, total, mebi, started, lock, tpc, tn,
                   tli, ttmp, teof, calls, tdata, tval, returned, report>>
    /\ UNCHANGED <<selVars, fltVars, runVars, prvVars, codVars, dnsVars>>

\* c.start = time.Now(); the transfer begins
Start ==
    /\ phase = "setup"
    /\ started' = TRUE
    /\ phase' = "run"
    /\ UNCHANGED <<uploadSize, payloadLen, payloadGen, off, pos, total, mebi,
                   lock, tpc, tn, tli, ttmp, teof, calls, tdata, tval,
                   returned, report>>
    /\ UNCHANGED <<selVars, fltVars, runVars, prvVars, codVars, dnsVars>>

CanLockMut(l) == TRUE

\* c.lock.Lock() goes through when the mutex is free
CanLock(l) == l = 0

\* c.total += uint64(n).  total is a uint64; the sums of this model stay far
\* below 2^64, where the addition would wrap
AddTotal(loaded, n) == loaded + n

\* ---- Write(p)
\* n := len(p)
WriteCall(t, sizes, maxcalls) ==
    /\ phase = "run"
    /\ tpc[t] = "idle"
    /\ calls < maxcalls
    /\ \E n \in sizes : tn' = [tn EXCEPT ![t] = n]
    /\ calls' = calls + 1
    /\ tpc' = [tpc EXCEPT ![t] = "w_lock"]
    /\ UNCHANGED <<phase, uploadSize, payloadLen, payloadGen, off, pos, total,
                   mebi, started, lock, tli, ttmp, teof, tdata, tval,
                   returned, report>>
    /\ UNCHANGED <<selVars, fltVars, runVars, prvVars, codVars, dnsVars>>

\* c.lock.Lock()
WriteLock(t) ==
    /\ tpc[t] = "w_lock"
    /\ CanLock(lock)
    /\ lock' = t
    /\ tpc' = [tpc EXCEPT ![t] = "w_load"]
    /\ UNCHANGED <<phase, uploadSize, payloadLen, payloadGen, off, pos, total,
                   mebi, started, tn, tli, ttmp, teof, calls, tdata, tval,
                   returned, report>>
    /\ UNCHANGED <<selVars, fltVars, runVars, prvVars, codVars, dnsVars>>

\* c.total += uint64(n): the load
WriteLoad(t) ==
    /\ tpc[t] = "w_load"
    /\ ttmp' = [ttmp EXCEPT ![t] = total]
    /\ tpc' = [tpc EXCEPT ![t] = "w_store"]
    /\ UNCHANGED <<phase, uploadSize, payloadLen, payloadGen, off, pos, total,
                   mebi, started, lock, tn, tli, teof, calls, tdata, tval,
                   returned, report>>
    /\ UNCHANGED <<selVars, fltVars, runVars, prvVars, codVars, dnsVars>>

\* c.total += uint64(n): the store
WriteStore(t) ==
    /\ tpc[t] = "w_store"
    /\ total' = AddTotal(ttmp[t], tn[t])
    /\ tpc' = [tpc EXCEPT ![t] = "w_unlock"]
    /\ UNCHANGED <<phase, uploadSize, payloadLen, payloadGen, off, pos, mebi,
                   started, lock, tn, tli, ttmp, teof, calls, tdata, tval,
                   returned, report>>
    /\ UNCHANGED <<selVars, fltVars, runVars, prvVars, codVars, dnsVars>>

\* c.lock.Unlock(); return n, nil
WriteUnlock(t) ==
    /\ tpc[t] = "w_unlock"
    /\ lock' = 0
    /\ returned' = returned + tn[t]
    /\ tn' = [tn EXCEPT ![t] = 0]
    /\ tli' = [tli EXCEPT ![t] = 0]
    /\ ttmp' = [ttmp EXCEPT ![t] = 0]
    /\ tpc' = [tpc EXCEPT ![t] = "idle"]
    /\ UNCHANGED <<phase, uploadSize, payloadLen, payloadGen, off, pos, total,
                   mebi, started, teof, calls, tdata, tval, report>>
    /\ UNCHANGED <<selVars, fltVars, runVars, prvVars, codVars, dnsVars>>

\* ---- Read(p)
\* Read needs c.reader, that is a GenerateBlob before it
ReadCall(t, sizes, maxcalls) ==
    /\ phase = "run"
    /\ payloadGen > 0
    /\ tpc[t] = "idle"
    /\ calls < maxcalls
    /\ \E n \in sizes : tn' = [tn EXCEPT ![t] = n]
    /\ calls' = calls + 1
    /\ tpc' = [tpc EXCEPT ![t] = "r_read"]
    /\ UNCHANGED <<phase, uploadSize, payloadLen, payloadGen, off, pos, total,
                   mebi, started, lock, tli, ttmp, teof, tdata, tval,
                   returned, report>>
    /\ UNCHANGED <<selVars, fltVars, runVars, prvVars, codVars, dnsVars>>

\* n, err := c.reader.Read(p), first half (bytes.Reader.Read):
\*   if r.i >= len(r.s) { return 0, io.EOF };  n = copy(b, r.s[r.i:])
ReaderCopy(t) ==
    /\ tpc[t] = "r_read"
    /\ tli' = [tli EXCEPT ![t] = off]
    /\ IF off >= payloadLen
         THEN /\ tn' = [tn EXCEPT ![t] = 0]
              /\ teof' = [teof EXCEPT ![t] = TRUE]
              /\ tdata' = [tdata EXCEPT ![t] = [gen |-> payloadGen, from |-> off, n |-> 0]]
              /\ tpc' = [tpc EXCEPT ![t] = "r_lock"]
         ELSE /\ tn' = [tn EXCEPT ![t] = Min(tn[t], payloadLen - off)]
              /\ teof' = [teof EXCEPT ![t] = FALSE]
              /\ tdata' = [tdata EXCEPT ![t] =
                             [gen |-> payloadGen, from |-> off,
                              n |-> Min(tn[t], payloadLen - off)]]
              /\ tpc' = [tpc EXCEPT ![t] = "r_adv"]
    /\ UNCHANGED <<phase, uploadSize, payloadLen, payloadGen, off, pos, total,
                   mebi, started, lock, ttmp, calls, tval, returned, report>>
    /\ UNCHANGED <<selVars, fltVars, runVars, prvVars, codVars, dnsVars>>

\* c.reader.Read(p), second half: r.i += int64(n).  It runs outside c.lock, so
\* with another Read or a Seek in between the store is either the offset
\* loaded above plus n or the current offset plus n.
ReaderAdvance(t) ==
    /\ tpc[t] = "r_adv"
    /\ off' \in {tli[t] + tn[t], off + tn[t]}
    /\ tpc' = [tpc EXCEPT ![t] = "r_lock"]
    /\ UNCHANGED <<phase, uploadSize, payloadLen, payloadGen, pos, total, mebi,
                   started, lock, tn, tli, ttmp, teof, calls, tdata, tval,
                   returned, report>>
    /\ UNCHANGED <<selVars, fltVars, runVars, prvVars, codVars, dnsVars>>

\* c.lock.Lock()
ReadLock(t) ==
    /\ tpc[t] = "r_lock"
    /\ CanLock(lock)
    /\ lock' = t
    /\ tpc' = [tpc EXCEPT ![t] = "r_load"]
    /\ UNCHANGED <<phase, uploadSize, payloadLen, payloadGen, off, pos, total,
                   mebi, started, tn, tli, ttmp, teof, calls, tdata, tval,
                   returned, report>>
    /\ UNCHANGED <<selVars, fltVars, runVars, prvVars, codVars, dnsVars>>

\* c.total += uint64(n): the load
ReadLoad(t) ==
    /\ tpc[t] = "r_load"
    /\ ttmp' = [ttmp EXCEPT ![t] = total]
    /\ tpc' = [tpc EXCEPT ![t] = "r_store"]
    /\ UNCHANGED <<phase, uploadSize, payloadLen, payloadGen, off, pos, total,
                   mebi, started, lock, tn, tli, teof, calls, tdata, tval,
                   returned, report>>
    /\ UNCHANGED <<selVars, fltVars, runVars, prvVars, codVars, dnsVars>>

\* c.total += uint64(n): the store
ReadStore(t) ==
    /\ tpc[t] = "r_store"
    /\ total' = AddTotal(ttmp[t], tn[t])
    /\ tpc' = [tpc EXCEPT ![t] = "r_pos"]
    /\ UNCHANGED <<phase, uploadSize, payloadLen, payloadGen, off, pos, mebi,
                   started, lock, tn, tli, ttmp, teof, calls, tdata, tval,
                   returned, report>>
    /\ UNCHANGED <<selVars, fltVars, runVars, prvVars, codVars, dnsVars>>

SeekStartMut(o) == o

\* c.reader.Seek(0, 0) on a bytes.Reader: the offset after the seek
SeekStart(o) == 0

\* if c.pos == c.uploadSize
AtEnd(p, size) == p = size

\* c.pos += n; if c.pos == c.uploadSize { c.resetReader() }
\* resetReader: c.pos = 0; return c.reader.Seek(0, 0)
ReadPos(t) ==
    /\ tpc[t] = "r_pos"
    /\ IF AtEnd(pos + tn[t], uploadSize)
         THEN pos' = 0 /\ off' = SeekStart(off)
         ELSE pos' = pos + tn[t] /\ UNCHANGED off
    /\ tpc' = [tpc EXCEPT ![t] = "r_unlock"]
    /\ UNCHANGED <<phase, uploadSize, payloadLen, payloadGen, total, mebi,
                   started, lock, tn, tli, ttmp, teof, calls, tdata, tval,
                   returned, report>>
    /\ UNCHANGED <<selVars, fltVars, runVars, prvVars, codVars, dnsVars>>

\* c.lock.Unlock(); return n, err
ReadUnlock(t) ==
    /\ tpc[t] = "r_unlock"
    /\ lock' = 0
    /\ returned' = returned + tn[t]
    /\ tn' = [tn EXCEPT ![t] = 0]
    /\ tli' = [tli EXCEPT ![t] = 0]
    /\ ttmp' = [ttmp EXCEPT ![t] = 0]
    /\ tpc' = [tpc EXCEPT ![t] = "idle"]
    /\ UNCHANGED <<phase, uploadSize, payloadLen, payloadGen, off, pos, total,
                   mebi, started, teof, calls, tdata, tval, report>>
    /\ UNCHANGED <<selVars, fltVars, runVars, prvVars, codVars, dnsVars>>

\* ---- reporting path
ReportFns == {"Total", "AvgBytes", "CurrentSpeed", "Bytes"}

\* a call of Total(), AvgBytes(), CurrentSpeed() or Bytes()
ReportCall(t, maxcalls) ==
    /\ phase = "run"
    /\ tpc[t] = "idle"
    /\ calls < maxcalls
    /\ \E f \in ReportFns : tpc' = [tpc EXCEPT ![t] = f]
    /\ calls' = calls + 1
    /\ UNCHANGED <<phase, uploadSize, payloadLen, payloadGen, off, pos, total,
                   mebi, started, lock, tn, tli, ttmp, teof, tdata, tval,
                   returned, report>>
    /\ UNCHANGED <<selVars, fltVars, runVars, prvVars, codVars, dnsVars>>

\* the read of c.total in `return c.total`, `float64(c.total) / ...`
ReportRead(t) ==
    /\ tpc[t] \in ReportFns
    /\ tval' = [tval EXCEPT ![t] = total]
    /\ tpc' = [tpc EXCEPT ![t] = "idle"]
    /\ UNCHANGED <<phase, uploadSize, payloadLen, payloadGen, off, pos, total,
                   mebi, started, lock, tn, tli, ttmp, teof, calls, tdata,
                   returned, report>>
    /\ UNCHANGED <<selVars, fltVars, runVars, prvVars, codVars, dnsVars>>

\* Bytes(): float64(c.total) / 8, kept as the fraction num/den
BytesNum(tot) == tot

BytesDen == 8

\* var base float64 = 1000; if c.mebi { base = 1024 }
Base(m) == IF m THEN 1024 ELSE 1000

\* BytesHumanize: val < base, val/base < base, val/base/base < base with
\* val = num/den (for an integer b, num/den < b exactly when num \div den < b).
\* The string is the unit and the scaled value num / (den * base^exp); the
\* %.2f rendering of the quotient is not carried out.
Humanize(num, den, base) ==
    IF num \div den < base
      THEN [unit |-> "bytes", num |-> num, den |-> den, exp |-> 0]
    ELSE IF num \div den < base * base
      THEN [unit |-> "KB", num |-> num, den |-> den, exp |-> 1]
    ELSE IF num \div den < base * base * base
      THEN [unit |-> "MB", num |-> num, den |-> den, exp |-> 2]
    ELSE [unit |-> "GB", num |-> num, den |-> den, exp |-> 3]

BytesHumanizeCall(t) ==
    /\ phase = "run"
    /\ tpc[t] = "idle"
    /\ tpc' = [tpc EXCEPT ![t] = "BytesHumanize"]
    /\ UNCHANGED <<phase, uploadSize, payloadLen, payloadGen, off, pos, total,
                   mebi, started, lock, tn, tli, ttmp, teof, calls, tdata,
                   tval, returned, report>>
    /\ UNCHANGED <<selVars, fltVars, runVars, prvVars, codVars, dnsVars>>

\* val := c.Bytes() and the unit cascade
BytesHumanizeRet(t) ==
    /\ tpc[t] = "BytesHumanize"
    /\ tval' = [tval EXCEPT ![t] = total]
    /\ report' = Humanize(BytesNum(total), BytesDen, Base(mebi))
    /\ tpc' = [tpc EXCEPT ![t] = "idle"]
    /\ UNCHANGED <<phase, uploadSize, payloadLen, payloadGen, off, pos, total,
                   mebi, started, lock, tn, tli, ttmp, teof, calls, tdata,
                   returned>>
    /\ UNCHANGED <<selVars, fltVars, runVars, prvVars, codVars, dnsVars>>

\* ------------------------------------------------------ preprocessServers
\* longest server list
MaxLen == 2
\* most entries of the exclude and the include list together
MaxKeys == 2

\* server IDs
IDs == {1, 2}

\* defs.Server, reduced to the fields preprocessServers reads
ServerTypes == {"Standard", "Perception", "WirelessSpeed"}

Servers == [Type : ServerTypes, ID : IDs]

KeyMut(server) == ToString(server.ID)

\* fmt.Sprintf("P%d", server.ID) / fmt.Sprintf("W%d", server.ID) / strconv.Itoa(server.ID)
Key(server) ==
    CASE server.Type = "Perception" -> "P" \o ToString(server.ID)
      [] server.Type = "WirelessSpeed" -> "W" \o ToString(server.ID)
      [] OTHER -> ToString(server.ID)

\* the strings a user puts in --exclude / --server
Keys == {Key(sv) : sv \in Servers} \cup {"-1"}

SeqsUpTo(S, n) == UNION {[1..k -> S] : k \in 0..n}

\* contains(arr, val)
Contains(arr, val) == \E i \in 1..Len(arr) : arr[i] = val

BothGivenMut(excludes, specific) == FALSE

\* len(excludes) > 0 && len(specific) > 0
BothGiven(excludes, specific) == Len(excludes) > 0 /\ Len(specific) > 0

ErrBoth == "either --exclude or --specific can be used"

\* the loop over servers that skips the excluded keys
Excluded(servers, excludes) ==
    SelectSeq(servers, LAMBDA sv : ~Contains(excludes, Key(sv)))

\* the loop over servers that keeps the keys named in specific
Specific(servers, specific) ==
    SelectSeq(servers, LAMBDA sv : Contains(specific, Key(sv)))

SentinelMut(specific) == Len(specific) > 0 /\ specific[1] = "-1"

\* contains(specific, "-1")
Sentinel(specific) == Contains(specific, "-1")

preprocessServers(servers, excludes, specific, filter) ==
    IF BothGiven(excludes, specific)
      THEN [ret |-> <<>>, err |-> ErrBoth]
    ELSE IF filter /\ Len(excludes) > 0
      THEN [ret |-> Excluded(servers, excludes), err |-> ""]
    ELSE IF filter /\ Len(specific) > 0 /\ ~Sentinel(specific)
      THEN [ret |-> Specific(servers, specific), err |-> ""]
    ELSE [ret |-> servers, err |-> ""]

\* no call made
NoFlt ==
    /\ fpc = "none"
    /\ fServers = <<>>
    /\ fExcludes = <<>>
    /\ fSpecific = <<>>
    /\ fFilter = FALSE
    /\ fRet = <<>>
    /\ fErr = ""

\* servers, err = preprocessServers(servers, excludes, specific, filter)
Preprocess ==
    /\ fpc = "none"
    /\ \E sv \in SeqsUpTo(Servers, MaxLen), ex \in SeqsUpTo(Keys, MaxKeys),
          f \in BOOLEAN :
       \E sp \in SeqsUpTo(Keys, MaxKeys - Len(ex)) :
         /\ fServers' = sv
         /\ fExcludes' = ex
         /\ fSpecific' = sp
         /\ fFilter' = f
         /\ fRet' = preprocessServers(sv, ex, sp, f).ret
         /\ fErr' = preprocessServers(sv, ex, sp, f).err
    /\ fpc' = "returned"
    /\ UNCHANGED <<selVars, ctrVars, runVars, prvVars, codVars, dnsVars>>

\* ------------------------------------------------------------ discovery
\* SpeedTest from the option checks to the end of the server discovery
\* (speedtest.go 189-342), with getIPInfo, getProvInfo and checkProv.

\* Strings that the code compares by substring are sequences of code points.
Text ==
    [Zhongguo |-> <<20013, 22269>>,             \* "中国"
     Meiguo |-> <<32654, 22269>>,               \* "美国"
     Shanghai |-> <<19978, 28023>>,             \* "上海"
     ShanghaiShi |-> <<19978, 28023, 24066>>,   \* "上海市"
     Guangdong |-> <<24191, 19996>>,            \* "广东"
     GuangdongSheng |-> <<24191, 19996, 30465>>,\* "广东省"
     Beijing |-> <<21271, 20140>>,              \* "北京"
     Hu |-> <<27818>>,                          \* "沪"
     Jing |-> <<20140>>,                        \* "京"
     Colon |-> <<58>>]                          \* ":"

StringsContainsMut(s, substr) == Len(substr) <= Len(s)

\* strings.Contains(s, substr)
StringsContains(s, substr) ==
    \E i \in 0..(Len(s) - Len(substr)) : SubSeq(s, i + 1, i + Len(substr)) = substr

\* checkProv(arr, val)
checkProv(arr, val) ==
    \E i \in 1..Len(arr) :
        \/ arr[i].Short = val
        \/ arr[i].Name = val
        \/ StringsContains(val, arr[i].Short)

\* rows of the embedded province table (ProvinceListByte): the Shanghai row
\* as getProvInfo spells it out (751) and a Guangdong row of the same pattern
ProvinceList ==
    << [ID |-> "31", Code |-> "sh", Short |-> Text.Shanghai, Name |-> Text.ShanghaiShi],
       [ID |-> "44", Code |-> "gd", Short |-> Text.Guangdong, Name |-> Text.GuangdongSheng] >>

\* the row getProvInfo returns when nothing matches
DefaultProv ==
    [ID |-> "31", Code |-> "sh", Short |-> Text.Shanghai, Name |-> Text.ShanghaiShi]

\* getProvInfo(provinces, name): the first row the loop's test accepts
getProvInfo(provinces, name) ==
    LET Matches(p) ==
            \/ p.Short = name
            \/ StringsContains(p.Name, name)
            \/ StringsContains(name, p.Short)
    IN IF name # <<>> /\ \E i \in 1..Len(provinces) : Matches(provinces[i])
         THEN LET first == CHOOSE i \in 1..Len(provinces) :
                             /\ Matches(provinces[i])
                             /\ \A j \in 1..(i - 1) : ~Matches(provinces[j])
              IN provinces[first]
         ELSE DefaultProv

\* ---- the reply of the geo endpoint
\* most '|'-separated fields of a reply body
MaxParts == 2
\* most strings of the JSON array of a reply
MaxFields == 5

\* err: the HTTP exchange failed; parts: len(strings.Split(body, "|")), 0 for
\* an empty body; json: data[1], which is not JSON or is a JSON array of
\* strings (country, region, city, district, isp; the last three are not used
\* later)
GeoReplies ==
    LET FullArrays ==
            {<<c, r>> \o [i \in 1..(MaxFields - 2) |-> <<>>] :
                c \in {Text.Zhongguo, Text.Meiguo},
                r \in {Text.GuangdongSheng, Text.Beijing}}
        NotJson == [valid |-> FALSE, arr |-> <<>>]
        JsonTexts ==
            {NotJson} \cup {[valid |-> TRUE, arr |-> SubSeq(a, 1, k)] :
                               a \in FullArrays, k \in 0..MaxFields}
    IN {[err |-> TRUE, parts |-> 0, json |-> NotJson]}
         \cup {[err |-> FALSE, parts |-> n, json |-> NotJson] : n \in 0..1}
         \cup {[err |-> FALSE, parts |-> n, json |-> j] :
                  n \in 2..MaxParts, j \in JsonTexts}

\* *defs.IPInfoResponse
NilInfo == [nil |-> TRUE, Country |-> <<>>, Region |-> <<>>]
ZeroInfo == [nil |-> FALSE, Country |-> <<>>, Region |-> <<>>]

\* getIPInfo(): what it returns for a reply, or that it panics on an index
\* (data[1] needs two fields, ispRaw[4] needs five strings)
getIPInfo(reply) ==
    IF reply.err THEN [panic |-> FALSE, info |-> NilInfo]
    ELSE IF reply.parts = 0 THEN [panic |-> FALSE, info |-> ZeroInfo]
    ELSE IF reply.parts < 2 THEN [panic |-> TRUE, info |-> ZeroInfo]
    ELSE IF ~reply.json.valid THEN [panic |-> FALSE, info |-> ZeroInfo]
    ELSE IF Len(reply.json.arr) < 5 THEN [panic |-> TRUE, info |-> ZeroInfo]
    ELSE [panic |-> FALSE,
          info |-> [nil |-> FALSE, Country |-> reply.json.arr[1],
                    Region |-> reply.json.arr[2]]]

\* ---- options
\* the command lines: source and iface say whether the option is given
Options ==
    [source : BOOLEAN, iface : BOOLEAN, csvHeader : BOOLEAN,
     concurrent : {0, 1}, list : BOOLEAN,
     province : {<<>>, <<"44">>, <<"sh">>, <<"99">>, <<"31", "gd">>},
     server : {<<>>, <<"1">>, <<"W1">>, <<"-1">>, <<"2", "P1">>},
     exclude : {<<>>, <<"1">>, <<"P1">>, <<"W1">>},
     disableTai : BOOLEAN, disablePet : BOOLEAN, disableWir : BOOLEAN,
     ipv6 : BOOLEAN]

\* strings.HasPrefix(s, "P") for type Perception, strings.HasPrefix(s, "W")
\* for type WirelessSpeed: s is the key of a server of that type
HasPrefix(s, type) == \E sv \in Servers : sv.Type = type /\ Key(sv) = s

\* lines 256-269
hasPerception(server) ==
    Len(server) = 0 \/ \E i \in 1..Len(server) : HasPrefix(server[i], "Perception")

hasWireless(server) ==
    Len(server) = 0 \/ \E i \in 1..Len(server) : HasPrefix(server[i], "WirelessSpeed")

hasGlobal(server) ==
    Len(server) = 0
      \/ \E i \in 1..Len(server) :
            ~HasPrefix(server[i], "Perception") /\ ~HasPrefix(server[i], "WirelessSpeed")

\* ---- what the directories answer
\* most servers in one directory answer
MaxFound == 1

\* a directory call returns a list of its server, or nil and an error
Answers(t) ==
    {[list |-> l, err |-> ""] : l \in SeqsUpTo({[Type |-> t, ID |-> 1]}, MaxFound)}
      \cup {[list |-> <<>>, err |-> "directory query failed"]}

\* entries the embedded snapshot (ServerListByte) may hold: a server and its
\* Prov
Snapshots ==
    SeqsUpTo({[ID |-> 1, Prov |-> Text.ShanghaiShi],
              [ID |-> 2, Prov |-> Text.Guangdong]}, MaxFound)

RECURSIVE Flatten(_)
\* serversP = append(serversP, serversPT...) over the answers
Flatten(answers) ==
    IF answers = <<>> THEN <<>>
    ELSE Head(answers).list \o Flatten(Tail(answers))

DomesticHitMut(cn, found) == FALSE

\* isCN && len(servers) > 0
DomesticHit(cn, found) == cn /\ Len(found) > 0

ProvGateMut(ps) == TRUE

\* len(provs) <= 0 || checkProv(provs, "广东")
ProvGate(ps) == Len(ps) <= 0 \/ checkProv(ps, Text.Guangdong)

NoneFoundMut(found) == FALSE

\* len(servers) == 0
NoneFound(found) == Len(found) = 0

\* nothing has run yet
InitRun ==
    /\ rpc = "options"
    /\ rGeo = [err |-> TRUE, parts |-> -1, json |-> [valid |-> FALSE, arr |-> <<>>]]
    /\ ispInfo = NilInfo
    /\ isCN = FALSE
    /\ provs = <<>>
    /\ rServers = <<>>
    /\ rStd = <<>>
    /\ rErr = ""
    /\ net = {}
    /\ printed = FALSE
    /\ rAt = 0

\* no run: the options of a command line without flags
NoRun ==
    /\ opt = [source |-> FALSE, iface |-> FALSE, csvHeader |-> FALSE,
              concurrent |-> 1, list |-> FALSE, province |-> <<>>,
              server |-> <<>>, exclude |-> <<>>, disableTai |-> FALSE,
              disablePet |-> FALSE, disableWir |-> FALSE, ipv6 |-> FALSE]
    /\ InitRun

\* return at source line `line` with error e ("" is nil)
Return(line, e) ==
    /\ rpc' = "returned"
    /\ rAt' = line
    /\ rErr' = e

\* lines 189-207
CheckOptions ==
    /\ rpc = "options"
    /\ IF opt.source /\ opt.iface THEN Return(190, "incompatible options")
       ELSE IF opt.csvHeader THEN Return(201, "")
       ELSE IF opt.concurrent <= 0 THEN Return(206, "invalid concurrent requests setting")
       ELSE rpc' = "geo" /\ UNCHANGED <<rAt, rErr>>
    /\ UNCHANGED <<opt, rGeo, ispInfo, isCN, provs, rServers, rStd, net, printed>>
    /\ UNCHANGED <<selVars, ctrVars, fltVars, prvVars, codVars, dnsVars>>

\* lines 230-232: ispInfo, _ = getIPInfo() unless --list
GetIPInfo ==
    /\ rpc = "geo"
    /\ IF opt.list
         THEN /\ rpc' = "provs"
              /\ UNCHANGED <<rGeo, ispInfo, net>>
         ELSE /\ net' = net \cup {"geo"}
              /\ \E reply \in GeoReplies :
                   /\ rGeo' = reply
                   /\ IF getIPInfo(reply).panic
                        THEN rpc' = "panicked" /\ UNCHANGED ispInfo
                        ELSE rpc' = "provs" /\ ispInfo' = getIPInfo(reply).info
    /\ UNCHANGED <<opt, isCN, provs, rServers, rStd, rErr, printed, rAt>>
    /\ UNCHANGED <<selVars, ctrVars, fltVars, prvVars, codVars, dnsVars>>

\* lines 234-254; named: the provinces whose ID or Code is in --province
SelectProvinces ==
    /\ rpc = "provs"
    /\ IF Len(opt.province) > 0
         THEN LET named == SelectSeq(ProvinceList,
                               LAMBDA p : \/ Contains(opt.province, p.ID)
                                          \/ Contains(opt.province, p.Code))
              IN
              /\ provs' = named
              /\ isCN' = FALSE
              /\ IF Len(named) = 0
                   THEN Return(245, "specified province(s) not found")
                   ELSE rpc' = "standard" /\ UNCHANGED <<rAt, rErr>>
         ELSE /\ rpc' = "standard"
              /\ UNCHANGED <<rAt, rErr>>
              /\ IF ~opt.list /\ Len(opt.server) <= 0
                   THEN IF ~ispInfo.nil /\ ispInfo.Country = Text.Zhongguo
                          THEN /\ isCN' = TRUE
                               /\ provs' = <<getProvInfo(ProvinceList, ispInfo.Region)>>
                          ELSE /\ isCN' = FALSE
                               /\ provs' = <<getProvInfo(ProvinceList, <<>>)>>
                   ELSE UNCHANGED <<isCN, provs>>
    /\ UNCHANGED <<opt, rGeo, ispInfo, rServers, rStd, net, printed>>
    /\ UNCHANGED <<selVars, ctrVars, fltVars, prvVars, codVars, dnsVars>>

\* lines 276-292; kept: the snapshot entries that pass the province filter
QueryStandard ==
    /\ rpc = "standard"
    /\ rpc' = "perception"
    /\ IF ~opt.disableTai /\ ~opt.ipv6 /\ hasGlobal(opt.server)
         THEN IF isCN
                THEN /\ net' = net \cup {"standard"}
                     /\ \E ans \in Answers("Standard") :
                          /\ rServers' = ans.list
                          /\ rErr' = ans.err
                ELSE /\ \E snap \in Snapshots :
                          LET kept == SelectSeq(snap, LAMBDA s :
                                          Len(provs) <= 0 \/ checkProv(provs, s.Prov))
                              list == [i \in 1..Len(kept) |->
                                          [Type |-> "Standard", ID |-> kept[i].ID]]
                          IN rServers' = preprocessServers(list, opt.exclude,
                                             opt.server, ~opt.list).ret
                     /\ UNCHANGED <<net, rErr>>
         ELSE UNCHANGED <<rServers, net, rErr>>
    /\ rStd' = rServers'
    /\ UNCHANGED <<opt, rGeo, ispInfo, isCN, provs, printed, rAt>>
    /\ UNCHANGED <<selVars, ctrVars, fltVars, prvVars, codVars, dnsVars>>

\* lines 297-308
QueryPerception ==
    /\ rpc = "perception"
    /\ rpc' = "wireless"
    /\ IF ~opt.disablePet /\ ~DomesticHit(isCN, rServers) /\ hasPerception(opt.server)
         THEN /\ net' = net \cup {"perception"}
              /\ \E answers \in [1..(IF Len(provs) <= 0 THEN 1 ELSE Len(provs))
                                   -> Answers("Perception")] :
                   LET pre == preprocessServers(Flatten(answers), opt.exclude,
                                                opt.server, ~opt.list)
                   IN /\ rErr' = pre.err
                      /\ rServers' = rServers \o pre.ret
         ELSE UNCHANGED <<rServers, net, rErr>>
    /\ UNCHANGED <<opt, rGeo, ispInfo, isCN, provs, rStd, printed, rAt>>
    /\ UNCHANGED <<selVars, ctrVars, fltVars, prvVars, codVars, dnsVars>>

\* lines 312-318
QueryWireless ==
    /\ rpc = "wireless"
    /\ rpc' = "check"
    /\ IF /\ ~opt.disableWir
          /\ ~DomesticHit(isCN, rServers)
          /\ hasWireless(opt.server)
          /\ ProvGate(provs)
         THEN /\ net' = net \cup {"wireless"}
              /\ \E ans \in Answers("WirelessSpeed") :
                   LET pre == preprocessServers(ans.list, opt.exclude,
                                                opt.server, ~opt.list)
                   IN /\ rErr' = pre.err
                      /\ rServers' = rServers \o pre.ret
         ELSE UNCHANGED <<rServers, net, rErr>>
    /\ UNCHANGED <<opt, rGeo, ispInfo, isCN, provs, rStd, printed, rAt>>
    /\ UNCHANGED <<selVars, ctrVars, fltVars, prvVars, codVars, dnsVars>>

\* lines 320-327
CheckFound ==
    /\ rpc = "check"
    /\ LET e == IF NoneFound(rServers) THEN "specified server(s) not found" ELSE rErr
       IN IF e # ""
            THEN Return(326, e)
            ELSE rpc' = "list" /\ UNCHANGED <<rAt, rErr>>
    /\ UNCHANGED <<opt, rGeo, ispInfo, isCN, provs, rServers, rStd, net, printed>>
    /\ UNCHANGED <<selVars, ctrVars, fltVars, prvVars, codVars, dnsVars>>

\* lines 330-342
ListServers ==
    /\ rpc = "list"
    /\ IF opt.list
         THEN printed' = TRUE /\ Return(341, "")
         ELSE rpc' = "test" /\ UNCHANGED <<printed, rAt, rErr>>
    /\ UNCHANGED <<opt, rGeo, ispInfo, isCN, provs, rServers, rStd, net>>
    /\ UNCHANGED <<selVars, ctrVars, fltVars, prvVars, codVars, dnsVars>>

\* lines 344-470: the source address is resolved, then the servers are probed
\* (after the selection when there are several and --server is not given)
\* and the transfers run
RunTests ==
    /\ rpc = "test"
    /\ \/ /\ opt.source
          /\ Return(372, "error parsing source IP")
          /\ UNCHANGED net
       \/ /\ net' = net \cup {"probe", "transfer"}
          /\ Return(470, "")
    /\ UNCHANGED <<opt, rGeo, ispInfo, isCN, provs, rServers, rStd, printed>>
    /\ UNCHANGED <<selVars, ctrVars, fltVars, prvVars, codVars, dnsVars>>

\* ------------------------------------------------------------- checkProv
\* most filters in one checkProv call
MaxProvs == 2

\* the arguments of a call that has not returned yet: arr holds
\* defs.ProvinceInfo reduced to the fields checkProv reads ("" is <<>>), val
\* is the free-text province field of a server
InitProv ==
    /\ ppc = "called"
    /\ pArr \in SeqsUpTo([Short : {Text.Hu, Text.Jing, Text.Shanghai},
                          Name : {<<>>, Text.ShanghaiShi}], MaxProvs)
    /\ pVal \in {Text.Shanghai, Text.ShanghaiShi, Text.Beijing}
    /\ pRet = FALSE

NoPrv ==
    /\ ppc = "none"
    /\ pArr = <<>>
    /\ pVal = <<>>
    /\ pRet = FALSE

\* checkProv(arr, val) returns
CheckProvReturn ==
    /\ ppc = "called"
    /\ ppc' = "returned"
    /\ pRet' = checkProv(pArr, pVal)
    /\ UNCHANGED <<pArr, pVal>>
    /\ UNCHANGED <<selVars, ctrVars, fltVars, runVars, codVars, dnsVars>>

\* ----------------------------------------------------- Encrypt / Decrypt
\* longest plaintext
MaxPlain == 9

\* block.BlockSize() of the DES cipher
BlockSize == 8

\* block.Encrypt / block.Decrypt of crypto/des on one block: the library is
\* represented by a keyed permutation of the blocks and its inverse
BlockEncrypt(key, src) ==
    [i \in 1..BlockSize |-> (src[BlockSize + 1 - i] + key[i]) % 256]

BlockDecrypt(key, src) ==
    [i \in 1..BlockSize |->
        (src[BlockSize + 1 - i] + 256 - key[BlockSize + 1 - i]) % 256]

PaddingMut(length, blockSize) == (blockSize - (length % blockSize)) % blockSize

\* padding := blockSize - len(ciphertext)%blockSize
Padding(length, blockSize) == blockSize - (length % blockSize)

\* PKCS5Padding(ciphertext, blockSize)
PKCS5Padding(ciphertext, blockSize) ==
    ciphertext \o [i \in 1..Padding(Len(ciphertext), blockSize) |->
                      Padding(Len(ciphertext), blockSize)]

\* PKCS5UnPadding(origData): the index and the slice expression panic when
\* they are out of range
PKCS5UnPadding(origData) ==
    IF Len(origData) = 0 THEN [panic |-> TRUE, out |-> <<>>]
    ELSE IF origData[Len(origData)] > Len(origData) THEN [panic |-> TRUE, out |-> <<>>]
    ELSE [panic |-> FALSE,
          out |-> SubSeq(origData, 1, Len(origData) - origData[Len(origData)])]

RECURSIVE EncryptBlocks(_, _)
\* the loop `for len(data) > 0` of Encrypt, one block after the other
EncryptBlocks(key, data) ==
    IF Len(data) = 0 THEN <<>>
    ELSE BlockEncrypt(key, SubSeq(data, 1, BlockSize))
           \o EncryptBlocks(key, SubSeq(data, BlockSize + 1, Len(data)))

RECURSIVE DecryptBlocks(_, _)
\* the loop `for len(data) > 0` of Decrypt
DecryptBlocks(key, data) ==
    IF Len(data) = 0 THEN <<>>
    ELSE BlockDecrypt(key, SubSeq(data, 1, BlockSize))
           \o DecryptBlocks(key, SubSeq(data, BlockSize + 1, Len(data)))

HexDigits ==
    <<"0", "1", "2", "3", "4", "5", "6", "7", "8", "9", "a", "b", "c", "d", "e", "f">>

RECURSIVE HexEncode(_)
\* hex.EncodeToString(out): two digits per byte
HexEncode(bytes) ==
    IF bytes = <<>> THEN <<>>
    ELSE <<HexDigits[(Head(bytes) \div 16) + 1], HexDigits[(Head(bytes) % 16) + 1]>>
           \o HexEncode(Tail(bytes))

RECURSIVE HexDecode(_)
\* hex.DecodeString(src) for a string of an even number of hex digits
HexDecode(digits) ==
    LET Value(c) == CHOOSE v \in 0..15 : HexDigits[v + 1] = c
    IN IF Len(digits) < 2 THEN <<>>
       ELSE <<16 * Value(digits[1]) + Value(digits[2])>>
              \o HexDecode(SubSeq(digits, 3, Len(digits)))

\* Encrypt(src, key)
Encrypt(src, key) ==
    LET data == PKCS5Padding(src, BlockSize)
    IN IF Len(data) % BlockSize # 0
         THEN [panic |-> TRUE, out |-> <<>>]
         ELSE [panic |-> FALSE, out |-> HexEncode(EncryptBlocks(key, data))]

\* Decrypt(src, key)
Decrypt(src, key) ==
    LET data == HexDecode(src)
    IN IF Len(src) % 2 # 0 \/ Len(data) % BlockSize # 0
         THEN [panic |-> TRUE, out |-> <<>>]
         ELSE PKCS5UnPadding(DecryptBlocks(key, data))

\* a plaintext and an 8-byte key, nothing encrypted yet; plaintexts are made
\* of a letter and of a byte that is a padding value
InitCodec ==
    /\ cpc = "plain"
    /\ cPlain \in SeqsUpTo({8, 97}, MaxPlain)
    /\ cKey \in {[i \in 1..BlockSize |-> 48 + i], [i \in 1..BlockSize |-> 250]}
    /\ cCipher = <<>>
    /\ cOut = <<>>

NoCod ==
    /\ cpc = "none"
    /\ cPlain = <<>>
    /\ cKey = <<>>
    /\ cCipher = <<>>
    /\ cOut = <<>>

\* pl := Encrypt(src, key)
EncryptCall ==
    /\ cpc = "plain"
    /\ IF Encrypt(cPlain, cKey).panic
         THEN cpc' = "panicked" /\ UNCHANGED cCipher
         ELSE cpc' = "encrypted" /\ cCipher' = Encrypt(cPlain, cKey).out
    /\ UNCHANGED <<cPlain, cKey, cOut>>
    /\ UNCHANGED <<selVars, ctrVars, fltVars, runVars, prvVars, dnsVars>>

\* Decrypt(pl, key)
DecryptCall ==
    /\ cpc = "encrypted"
    /\ IF Decrypt(cCipher, cKey).panic
         THEN cpc' = "panicked" /\ UNCHANGED cOut
         ELSE cpc' = "decrypted" /\ cOut' = Decrypt(cCipher, cKey).out
    /\ UNCHANGED <<cPlain, cKey, cCipher>>
    /\ UNCHANGED <<selVars, ctrVars, fltVars, runVars, prvVars, dnsVars>>

\* ------------------------------------ host resolution of a Perception server
\* most records net.LookupHost returns
MaxRecords == 3

RECURSIVE Resolved(_, _)
\* the loop over records (575-581)
Resolved(s, records) ==
    IF records = <<>> THEN s
    ELSE Resolved(IF StringsContains(Head(records), Text.Colon)
                    THEN [s EXCEPT !.IPv6 = Head(records)]
                    ELSE [s EXCEPT !.IP = Head(records)],
                  Tail(records))

\* a server as the directory listed it, and the records its host will get:
\* addresses as LookupHost prints them, here 1.1, 2.2, ::1, ::2
InitDns ==
    /\ dpc = "listed"
    /\ dRecords \in SeqsUpTo({<<49, 46, 49>>, <<50, 46, 50>>,
                              <<58, 58, 49>>, <<58, 58, 50>>}, MaxRecords)
    /\ dServer = [IP |-> <<>>, IPv6 |-> <<>>]
    /\ dLooked = FALSE

NoDns ==
    /\ dpc = "none"
    /\ dRecords = <<>>
    /\ dServer = [IP |-> <<>>, IPv6 |-> <<>>]
    /\ dLooked = FALSE

\* one iteration of the loop over servers (568-586): the URL parses or not,
\* the host is a domain name or not, the lookup succeeds or not
ResolveServer ==
    /\ dpc = "listed"
    /\ dpc' = "resolved"
    /\ \E parsed \in BOOLEAN, domain \in BOOLEAN, found \in BOOLEAN :
         /\ dLooked' = (parsed /\ domain /\ found)
         /\ dServer' = IF parsed /\ domain /\ found
                         THEN Resolved(dServer, dRecords)
                         ELSE dServer
    /\ UNCHANGED dRecords
    /\ UNCHANGED <<selVars, ctrVars, fltVars, runVars, prvVars, codVars>>

\* every part other than the selection, the counter and the filter at rest
NoRest == NoRun /\ NoPrv /\ NoCod /\ NoDns


\* ------------------------------------------------------- specifications
\* idle selection state of the specifications that do not run the selection
NoSel ==
    /\ nServers = 0
    /\ outcome = <<>>
    /\ InitSel

Init ==
    /\ nServers \in 2..MaxServers
    /\ outcome \in AllOutcomes(nServers)
    /\ InitSel
    /\ InitCtr
    /\ NoFlt
    /\ NoRest

Next == NextSel

Spec == Init /\ [][Next]_vars

\* every goroutine that can take a step eventually takes one
Fairness ==
    /\ WF_vars(Orchestrator)
    /\ WF_vars(Waiter)
    /\ WF_vars(Worker)

FairSpec == Spec /\ Fairness

InitPool ==
    /\ nServers \in (PoolSize + 1)..(PoolSize + ExtraServers)
    /\ outcome \in PoolOutcomes(nServers)
    /\ InitSel
    /\ InitCtr
    /\ NoFlt
    /\ NoRest

SpecPool == InitPool /\ [][Next]_vars

FairSpecPool == SpecPool /\ Fairness

\* -- BytesCounter used by NumThreads goroutines at once
Setup ==
    \/ \E k \in 1..MaxKiB : SetUploadSize(k)
    \/ GenerateBlob
    \/ Start

NextCtr ==
    \/ Setup
    \/ \E t \in Threads : WriteCall(t, CtrSizes, MaxCalls)
    \/ \E t \in Threads : WriteLock(t)
    \/ \E t \in Threads : WriteLoad(t)
    \/ \E t \in Threads : WriteStore(t)
    \/ \E t \in Threads : WriteUnlock(t)
    \/ \E t \in Threads : ReadCall(t, CtrSizes, MaxCalls)
    \/ \E t \in Threads : ReaderCopy(t)
    \/ \E t \in Threads : ReaderAdvance(t)
    \/ \E t \in Threads : ReadLock(t)
    \/ \E t \in Threads : ReadLoad(t)
    \/ \E t \in Threads : ReadStore(t)
    \/ \E t \in Threads : ReadPos(t)
    \/ \E t \in Threads : ReadUnlock(t)
    \/ \E t \in Threads : ReportCall(t, MaxCalls)
    \/ \E t \in Threads : ReportRead(t)

InitCounter == NoSel /\ InitCtr /\ NoFlt /\ NoRest

SpecCtr == InitCounter /\ [][NextCtr]_vars


\* -- one goroutine reading the payload over and over (the upload body)
NextSeq ==
    \/ Setup
    \/ ReadCall(1, SeqSizes, MaxSeqCalls)
    \/ ReaderCopy(1)
    \/ ReaderAdvance(1)
    \/ ReadLock(1)
    \/ ReadLoad(1)
    \/ ReadStore(1)
    \/ ReadPos(1)
    \/ ReadUnlock(1)

SpecSeq == InitCounter /\ [][NextSeq]_vars

\* -- one goroutine writing, then formatting the total
NextFmt ==
    \/ Setup
    \/ \E b \in BOOLEAN : SetMebi(b)
    \/ WriteCall(1, FmtSizes, MaxFmtCalls)
    \/ WriteLock(1)
    \/ WriteLoad(1)
    \/ WriteStore(1)
    \/ WriteUnlock(1)
    \/ BytesHumanizeCall(1)
    \/ BytesHumanizeRet(1)

SpecFmt == InitCounter /\ [][NextFmt]_vars

\* -- preprocessServers applied to every input within the bounds
InitFilter == NoSel /\ InitCtr /\ NoFlt /\ NoRest

NextFilter == Preprocess

SpecFilter == InitFilter /\ [][NextFilter]_vars

\* -- a run of SpeedTest for every combination of options
InitDiscovery ==
    /\ NoSel /\ InitCtr /\ NoFlt /\ NoPrv /\ NoCod /\ NoDns
    /\ opt \in Options
    /\ InitRun

NextRun ==
    \/ CheckOptions
    \/ GetIPInfo
    \/ SelectProvinces
    \/ QueryStandard
    \/ QueryPerception
    \/ QueryWireless
    \/ CheckFound
    \/ ListServers
    \/ RunTests

SpecRun == InitDiscovery /\ [][NextRun]_vars

\* -- checkProv applied to every input within the bounds
InitCheckProv ==
    /\ NoSel /\ InitCtr /\ NoFlt /\ NoRun /\ NoCod /\ NoDns
    /\ InitProv

SpecProv == InitCheckProv /\ [][CheckProvReturn]_vars

\* -- Encrypt, then Decrypt of its result
InitRoundTrip ==
    /\ NoSel /\ InitCtr /\ NoFlt /\ NoRun /\ NoPrv /\ NoDns
    /\ InitCodec

NextCodec ==
    \/ EncryptCall
    \/ DecryptCall

SpecCodec == InitRoundTrip /\ [][NextCodec]_vars

\* -- the host resolution for every record sequence within the bounds
InitResolve ==
    /\ NoSel /\ InitCtr /\ NoFlt /\ NoRun /\ NoPrv /\ NoCod
    /\ InitDns

SpecDns == InitResolve /\ [][ResolveServer]_vars

\* ------------------------------------------------------- selection claims
LeftLoop == opc \in {"check", "pick", "fatal", "transfer"}

\* every dispatched job went through wg.Done()
Accounted == idx = nServers /\ jobs = <<>> /\ working = <<>> /\ wg = 0

NoLatency == \A i \in Candidates : outcome[i].kind # "ok"

AllUnreachable == \A i \in Candidates : outcome[i].kind = "down"

\* C1: under fair scheduling the completion signal eventually fires and the
\* orchestrator leaves the collect loop, whatever the candidate count and the
\* outcomes; the signal fires only after every dispatched job is accounted for.
C1_SignalFires == <>(done /\ LeftLoop) /\ [](done => Accounted)

\* C2: when the orchestrator has left the collect loop, no emitted PingResult
\* is still waiting in the result queue.
C2_AllCollected == LeftLoop => results = <<>>

\* C3: the server handed to the transfer test produced a latency result and
\* no candidate with a result has a strictly lower latency.
C3_LowestLatency ==
    opc = "transfer" =>
        /\ Len(tested) = 1
        /\ outcome[tested[1]].kind = "ok"
        /\ \A i \in Candidates :
              outcome[i].kind = "ok" => outcome[tested[1]].ping <= outcome[i].ping

\* C4: when no candidate yields a latency result, no server is ever picked or
\* transfer-tested and the only way out of the collect loop is the fatal
\* "no server available" exit; an all-unreachable candidate set reaches it.
C4_NoServerAvailable ==
    /\ [](NoLatency => (opc \notin {"pick", "transfer"} /\ tested = <<>>))
    /\ (AllUnreachable ~> (opc = "fatal"))

C4_Witness == AllUnreachable /\ opc = "fatal" /\ tested = <<>>

\* C5: no probe worker ever terminates: once the pool is spawned, all PoolSize
\* workers are probing a job or blocked on the job queue.
C5_WorkersKeepRunning ==
    /\ exited = 0
    /\ (opc # "spawn" => Idle + Cardinality(DOMAIN working) = PoolSize)

\* ---------------------------------------------------- BytesCounter claims
AllIdle == \A t \in Threads : tpc[t] = "idle"

\* C6: once Start() has been called total never decreases, and whenever every
\* Write and Read has returned it equals the sum of the returned byte counts.
C6_TotalExact ==
    [][started => (total' >= total /\ (AllIdle' => total' = returned'))]_vars

\* a goroutine waits for the lock while the holder has just added to total
C6_Witness ==
    /\ started
    /\ total > 0
    /\ \E t \in Threads : lock # 0 /\ lock # t /\ tpc[t] \in {"w_lock", "r_lock"}

\* positions whose statement reads or writes c.total, c.pos or the reader cursor
AccessPcs ==
    {"w_load", "w_store", "r_read", "r_adv", "r_load", "r_store", "r_pos",
     "BytesHumanize"} \cup ReportFns

\* C7: every access to total or to the read position (the mutations of Write
\* and Read, the cursor advance of Read, the reads of Total, AvgBytes,
\* CurrentSpeed and Bytes) happens while the accessing goroutine holds the lock.
C7_AccessUnderLock == \A t \in Threads : tpc[t] \in AccessPcs => lock = t

\* the payload was generated for the current upload size S > 0
PayloadFits == uploadSize > 0 /\ payloadGen > 0 /\ payloadLen = uploadSize

\* C8: for a sequential reader with non-empty buffers, after every Read the
\* position is the number of bytes read so far modulo S (so it went back to 0
\* exactly when the bytes since the last reset summed to S), the reader offset
\* equals it, and the Read returned a non-empty slice of the one generated
\* payload starting where the previous Read stopped, never end-of-data.
C8_Cycling ==
    (PayloadFits /\ phase = "run" /\ tpc[1] = "idle") =>
        /\ pos = returned % uploadSize
        /\ off = pos
        /\ calls > 0 =>
             /\ ~teof[1]
             /\ tdata[1].n > 0
             /\ tdata[1].gen = payloadGen
             /\ tdata[1].from = (returned - tdata[1].n) % uploadSize

\* a Read after the first full cycle served the payload from its start again
C8_Witness ==
    /\ PayloadFits
    /\ tpc[1] = "idle"
    /\ returned > uploadSize
    /\ ~teof[1]
    /\ tdata[1].n > 0
    /\ tdata[1].from = 0

\* the unit the first threshold below the base selects for a number of bytes
UnitOfBytes(b, base) ==
    IF b < base THEN "bytes"
    ELSE IF b \div base < base THEN "KB"
    ELSE IF (b \div base) \div base < base THEN "MB"
    ELSE "GB"

\* C9: BytesHumanize reports in the first unit whose scaled value of the
\* counter's byte total is below the base (999 -> bytes, 1000 -> KB; with mebi
\* 1023 -> bytes, 1024 -> KB).
C9_UnitFromTotal ==
    [][\A t \in Threads :
          (tpc[t] = "BytesHumanize" /\ tpc'[t] = "idle") =>
              report'.unit = UnitOfBytes(total, Base(mebi))]_vars

\* ----------------------------------------------- preprocessServers claims
\* C10: with both the exclude list and the include list non-empty,
\* preprocessServers returns the configuration error and no servers, for every
\* server list, every content of the two lists and either filter flag.
C10_Exclusive ==
    (fpc = "returned" /\ Len(fExcludes) > 0 /\ Len(fSpecific) > 0) =>
        (fErr = ErrBoth /\ fRet = <<>>)

\* both lists given, with servers that the exclude list alone would let through
C10_Witness ==
    /\ fpc = "returned"
    /\ Len(fExcludes) > 0
    /\ Len(fSpecific) > 0
    /\ fFilter
    /\ Len(Excluded(fServers, fExcludes)) > 0
    /\ fErr = ErrBoth


\* C11: with an empty exclude list and an include list that holds "-1",
\* preprocessServers returns the input list unchanged and no error, whatever
\* else the include list holds and whatever the filter flag is.
C11_Sentinel ==
    (/\ fpc = "returned"
     /\ fExcludes = <<>>
     /\ \E i \in 1..Len(fSpecific) : fSpecific[i] = "-1") =>
        (fRet = fServers /\ fErr = "")

\* filtering on, "-1" after another include entry, and a server that the
\* other entry alone would have dropped
C11_Witness ==
    /\ fpc = "returned"
    /\ fFilter
    /\ fExcludes = <<>>
    /\ Len(fSpecific) = 2
    /\ fSpecific[1] # "-1"
    /\ fSpecific[2] = "-1"
    /\ Len(fServers) = 2
    /\ \E i \in 1..2 : Key(fServers[i]) = fSpecific[1]
    /\ \E i \in 1..2 : Key(fServers[i]) # fSpecific[1]
    /\ fRet = fServers

\* the key the user writes for a server: P<id>, W<id>, or the bare id
KeyTable ==
    [Standard |-> <<"1", "2", "3">>,
     Perception |-> <<"P1", "P2", "P3">>,
     WirelessSpeed |-> <<"W1", "W2", "W3">>]

RECURSIVE KeptInOrder(_, _, _)
\* the subsequence of servers, in order, whose key is in list (want = TRUE)
\* or is not in list (want = FALSE)
KeptInOrder(servers, list, want) ==
    IF servers = <<>> THEN <<>>
    ELSE LET sv == Head(servers)
             in == \E i \in 1..Len(list) : list[i] = KeyTable[sv.Type][sv.ID]
         IN (IF in = want THEN <<sv>> ELSE <<>>)
              \o KeptInOrder(Tail(servers), list, want)

\* C12: with filtering on, the result is the subsequence of the input, in
\* input order, of the servers whose type-prefixed key is not in a non-empty
\* exclude list, or is in a non-empty include list without "-1"; a bare key
\* never matches a P or W server with the same number.
C12_Subsequence ==
    (fpc = "returned" /\ fFilter /\ fErr = "") =>
        /\ Len(fExcludes) > 0 => fRet = KeptInOrder(fServers, fExcludes, FALSE)
        /\ (/\ Len(fSpecific) > 0
            /\ \A i \in 1..Len(fSpecific) : fSpecific[i] # "-1") =>
               fRet = KeptInOrder(fServers, fSpecific, TRUE)

\* a Standard and a Perception server with the same number, and a bare key
\* in the list: only the Standard one is matched
C12_Witness ==
    /\ fpc = "returned"
    /\ fFilter
    /\ fErr = ""
    /\ Len(fServers) = 2
    /\ fServers[1].Type = "Perception"
    /\ fServers[2].Type = "Standard"
    /\ fServers[1].ID = fServers[2].ID
    /\ \/ fSpecific = <<"1">> /\ fRet = <<fServers[2]>>
       \/ fExcludes = <<"1">> /\ fRet = <<fServers[1]>>

\* ------------------------------------------------------- discovery claims
\* the caller counts as domestic when SpeedTest set isCN
Queried(family) == family \in net

HasGuangdong(ps) == \E i \in 1..Len(ps) : ps[i].ID = "44"

C14_OnlyGuangdong ==
    Queried("wireless") => HasGuangdong(provs)

\* C14 amended: the Wireless directory is queried only in runs whose province
\* set is empty or includes Guangdong; with a non-empty province set that
\* lacks Guangdong it is never queried.
C14_EmptyOrGuangdong ==
    Queried("wireless") => (provs = <<>> \/ HasGuangdong(provs))

\* the Wireless directory queried in a run with an empty province set
C14_Witness ==
    /\ Queried("wireless")
    /\ provs = <<>>
    /\ rpc = "check"

\* the run is past the test of line 320
PastCheck == rpc \in {"list", "test"} \/ (rpc = "returned" /\ rAt >= 320)

\* C15: when the aggregated list is empty after all attempted families, the
\* run returns an error; no list is printed, nothing is probed and no transfer
\* runs.
C15_EmptyIsFatal ==
    (PastCheck /\ rServers = <<>>) =>
        /\ rpc = "returned"
        /\ rErr # ""
        /\ ~printed
        /\ ~Queried("probe")
        /\ ~Queried("transfer")

\* two families were asked, none had a server, and the run ended at line 326
C15_Witness ==
    /\ rpc = "returned"
    /\ rAt = 326
    /\ rServers = <<>>
    /\ rErr = "specified server(s) not found"
    /\ Queried("perception")
    /\ Queried("wireless")

ConfigError ==
    \/ opt.source /\ opt.iface
    \/ Len(opt.exclude) > 0 /\ Len(opt.server) > 0
    \/ opt.concurrent <= 0

\* C16: in a run with a configuration error (source address with interface,
\* exclude list with include list, concurrency below 1) no network request is
\* ever issued, and the run ends with the configuration error (a run that
\* only prints the CSV header reports nothing).
C16_ConfigErrorsFirst ==
    ConfigError =>
        /\ net = {}
        /\ (rpc = "returned" /\ ~opt.csvHeader) =>
               rErr \in {"incompatible options", "invalid concurrent requests setting", ErrBoth}

\* the reply is not empty and is not "<ip>|<array of five strings>"
Malformed(reply) ==
    /\ ~reply.err
    /\ reply.parts >= 1
    /\ \/ reply.parts < 2
       \/ ~reply.json.valid
       \/ Len(reply.json.arr) < 5

\* C19: a partial or malformed geo reply (no separator, an array of fewer
\* than five strings, invalid JSON) never fails the run: getIPInfo returns
\* with the location fields zero, and the caller falls back to the default
\* province.
C19_MalformedTolerated ==
    Malformed(rGeo) =>
        /\ rpc # "panicked"
        /\ ispInfo = ZeroInfo
        /\ (/\ rpc \notin {"options", "geo", "provs"}
            /\ Len(opt.province) = 0
            /\ Len(opt.server) = 0) => provs = <<DefaultProv>>

\* results emitted so far for candidate i: still queued, or already collected
Emitted(i) ==
    Cardinality({k \in 1..Len(results) : results[k].Index = i})
        + (IF i \in DOMAIN pingList THEN 1 ELSE 0)

\* C23: during selection every dispatched job is accounted for exactly once
\* and the queues never overflow: the outstanding-job counter is >= 0 and
\* equals the jobs queued or held by a worker, at most one result was emitted
\* per candidate index, neither queue holds more than the candidate count,
\* and neither the orchestrator's enqueue nor a worker's emit finds its queue
\* full.
C23_JobsAccounted ==
    /\ wg >= 0
    /\ wg = Len(jobs) + Cardinality(DOMAIN working)
    /\ \A i \in Candidates : Emitted(i) <= 1
    /\ Len(jobs) <= nServers
    /\ Len(results) <= nServers
    /\ opc = "dispatch" => Len(jobs) < nServers
    /\ \A j \in DOMAIN working : working[j] = "probe" => Len(results) < nServers

\* every candidate's result was emitted before the orchestrator collected any:
\* the result queue is full and the counter is back at zero
C23_Witness ==
    /\ nServers > 1
    /\ Len(results) = nServers
    /\ wg = 0
    /\ opc = "collect"

\* C21: in a testing run (no --list) with a non-empty exclude list, no server
\* whose type-prefixed key is in the exclude list is probed or transfer-tested,
\* whichever family listed it and whether the caller is domestic or not.
C21_ExcludedNeverTested ==
    (~opt.list /\ Len(opt.exclude) > 0 /\ Queried("probe")) =>
        \A i \in 1..Len(rServers) :
            \A k \in 1..Len(opt.exclude) :
                opt.exclude[k] # KeyTable[rServers[i].Type][rServers[i].ID]

\* the run is past the Wireless block (312-318)
PastWireless == rpc = "check" \/ PastCheck

\* C22: for a domestic caller whose Standard query left no server, the
\* Wireless directory is queried whenever it is enabled and the province set
\* has Guangdong, whether or not the Perception query returned servers.
C22_WirelessIndependent ==
    (/\ PastWireless
     /\ isCN
     /\ rStd = <<>>
     /\ ~opt.disableWir
     /\ hasWireless(opt.server)
     /\ HasGuangdong(provs)) => Queried("wireless")

\* C24: for a counter whose upload size S > 0 is unchanged since GenerateBlob,
\* under any interleaving of concurrent Read calls the position counter stays
\* within 0 <= pos < S, and the position update of a Read never steps past S
\* (so the test pos == S that triggers the reset is never skipped).
C24_PosNeverPastSize ==
    PayloadFits =>
        /\ 0 <= pos
        /\ pos < uploadSize
        /\ \A t \in Threads : tpc[t] = "r_pos" => pos + tn[t] <= uploadSize

\* -------------------------------------------------------- checkProv claims
HuAndShanghaiShi ==
    pArr = <<[Short |-> Text.Hu, Name |-> Text.ShanghaiShi]>> /\ pVal = Text.ShanghaiShi

HuAlone == pArr = <<[Short |-> Text.Hu, Name |-> <<>>]>> /\ pVal = Text.Shanghai

JingAlone == pArr = <<[Short |-> Text.Jing, Name |-> <<>>]>> /\ pVal = Text.ShanghaiShi

\* C17 as stated: checkProv is true for {Short: 沪, Name: 上海市} against
\* 上海市, true for {Short: 沪} against 上海, false for {Short: 京} against
\* 上海市.
C17_Examples ==
    ppc = "returned" =>
        /\ HuAndShanghaiShi => pRet
        /\ HuAlone => pRet
        /\ JingAlone => ~pRet

\* C17 amended: checkProv is true for {Short: 沪, Name: 上海市} against
\* 上海市, false for {Short: 沪} against 上海 (沪 is not a substring of 上海),
\* false for {Short: 京} against 上海市.
C17_ExamplesAmended ==
    ppc = "returned" =>
        /\ HuAndShanghaiShi => pRet
        /\ HuAlone => ~pRet
        /\ JingAlone => ~pRet

\* the call with {Short: 沪} and 上海 returned false
C17_Witness ==
    /\ ppc = "returned"
    /\ HuAlone
    /\ ~pRet

\* ------------------------------------------------------------ codec claims
\* C18: for every plaintext, the empty one and those of a whole number of
\* blocks included, and every 8-byte key, Decrypt(Encrypt(p, k), k) returns p
\* and neither call panics.
C18_RoundTrip ==
    /\ cpc # "panicked"
    /\ cpc = "decrypted" => cOut = cPlain

\* a plaintext of exactly one block that ends with a byte that looks like
\* padding went through Encrypt (two blocks of cipher text) and Decrypt
C18_Witness ==
    /\ cpc = "decrypted"
    /\ Len(cPlain) = BlockSize
    /\ cPlain[BlockSize] = BlockSize
    /\ Len(cCipher) = 4 * BlockSize
    /\ cOut = cPlain

\* ------------------------------------------------------- resolution claims
HasColon(r) == \E k \in 1..Len(r) : r[k] = 58

\* the first record of the sequence that has (v6) or has not a colon
IsFirst(i, v6) ==
    /\ HasColon(dRecords[i]) = v6
    /\ \A j \in 1..(i - 1) : HasColon(dRecords[j]) # v6

\* C20: after the host of a Perception server is resolved, IPv6 is the first
\* record with a colon and IP the first record without one; later records of
\* the same kind do not replace them.
C20_FirstRecordWins ==
    (dpc = "resolved" /\ dLooked) =>
        \A i \in 1..Len(dRecords) :
            /\ IsFirst(i, TRUE) => dServer.IPv6 = dRecords[i]
            /\ IsFirst(i, FALSE) => dServer.IP = dRecords[i]

====
